---- MODULE Spec2Model ----
(***************************************************************************)
(* Model of src/app/dexscreener_app.py: the "Fetch and Analyze" click      *)
(* handler of DexscreenerApp with the three functions it sequences         *)
(* (fetch_token_data, analyze_token_data, send_telegram_message).          *)
(*                                                                         *)
(* Numbers are fixed-point integers counting 1/10000 units, so that the    *)
(* "{:.2f}" formatting of line 28 is a real rounding step.  Strings that   *)
(* float() parses are kept as sequences of one-character strings.          *)
(***************************************************************************)
EXTENDS Integers, Sequences, FiniteSets, TLC

VARIABLES
    env,            \* process environment: TELEGRAM_BOT_TOKEN, TELEGRAM_CHAT_ID
    status_label,   \* text of self.status_label
    text_box,       \* text of self.text_box
    pc,             \* position of the click handler
    token_data,     \* local of fetch_and_analyze (line 73)
    analyzed_data,  \* local of fetch_and_analyze (line 75)
    idx,            \* position of the for loop of line 78 (1-based)
    calls,          \* names of the functions invoked so far in this run
    fetch_result,   \* outcome of this run's fetch_token_data call, if made
    send_args,      \* arguments of this run's send_telegram_message calls
    send_results,   \* outcome of each of this run's send_telegram_message calls
    delivered,      \* messages bot.send_message delivered in this run
    raised,         \* str(e) of the exception caught at line 81 in this run
    prior           \* what the status label showed when this run was started

vars == <<env, status_label, text_box, pc, token_data, analyzed_data, idx,
          calls, fetch_result, send_args, send_results, delivered, raised, prior>>

(***************************************************************************)
(* Bounds of the model and constants of the program.                       *)
(***************************************************************************)
MaxPairs == 6       \* longest "pairs" list a response carries
TopN == 5           \* the [:5] of line 22

Min(a, b) == IF a < b THEN a ELSE b

(***************************************************************************)
(* JSON values of the response, as json() decodes them.                    *)
(***************************************************************************)
JAbsent == [tag |-> "absent", s |-> <<>>, n |-> 0]      \* key not in the dict
JNull == [tag |-> "null", s |-> <<>>, n |-> 0]          \* None
JStr(chars) == [tag |-> "str", s |-> chars, n |-> 0]    \* a str
JNum(k) == [tag |-> "num", s |-> <<>>, n |-> k]         \* an int or float

\* token["volume"]: absent, a dict (with or without "h24"), or another value.
VAbsent == [tag |-> "absent", h24 |-> JAbsent]
VObj(h) == [tag |-> "obj", h24 |-> h]
VNull == [tag |-> "null", h24 |-> JAbsent]
VNum == [tag |-> "num", h24 |-> JAbsent]

\* token["baseToken"]: absent, or a dict whose "name" / "address" may be absent.
BaseToken(nm, ad) ==
    [present |-> TRUE, hasName |-> TRUE, name |-> nm, hasAddress |-> TRUE, address |-> ad]
NoBaseToken ==
    [present |-> FALSE, hasName |-> FALSE, name |-> "", hasAddress |-> FALSE, address |-> ""]

Pair(bt, price, vol) == [baseToken |-> bt, priceUsd |-> price, volume |-> vol]

(***************************************************************************)
(* float() and the "{:.2f}" format.                                        *)
(***************************************************************************)
Digits == <<"0", "1", "2", "3", "4", "5", "6", "7", "8", "9">>

IsDigit(c) == \E i \in 1..10 : Digits[i] = c

DigitVal(c) == (CHOOSE i \in 1..10 : Digits[i] = c) - 1

RECURSIVE Join(_)
Join(chars) == IF chars = <<>> THEN "" ELSE Head(chars) \o Join(Tail(chars))

RECURSIVE DigitsVal(_, _)
DigitsVal(chars, acc) ==
    IF chars = <<>> THEN acc
    ELSE DigitsVal(Tail(chars), acc * 10 + DigitVal(Head(chars)))

AllDigits(chars) == \A i \in 1..Len(chars) : IsDigit(chars[i])

\* the first four fractional digits, right-padded with zeros
FracVal(chars) ==
    LET padded == SubSeq(chars \o <<"0", "0", "0", "0">>, 1, 4)
    IN  DigitsVal(padded, 0)

Ok(v) == [ok |-> TRUE, val |-> v, err |-> ""]
Raise(msg) == [ok |-> FALSE, val |-> 0, err |-> msg]

\* float(str): unsigned decimal literals "ddd", "ddd.ddd", ".ddd", "ddd."
ParseFloat(chars) ==
    LET dots == {i \in 1..Len(chars) : chars[i] = "."}
        bad == Raise("could not convert string to float: '" \o Join(chars) \o "'")
    IN  IF Cardinality(dots) > 1 THEN bad
        ELSE LET d == IF dots = {} THEN Len(chars) + 1 ELSE CHOOSE i \in dots : TRUE
                 ip == SubSeq(chars, 1, d - 1)
                 fp == SubSeq(chars, d + 1, Len(chars))
             IN  IF ~AllDigits(ip) \/ ~AllDigits(fp) \/ Len(ip) + Len(fp) = 0 THEN bad
                 ELSE Ok(DigitsVal(ip, 0) * 10000 + FracVal(fp))

\* float(x) for a decoded JSON value x
Float(j) ==
    IF j.tag = "str" THEN ParseFloat(j.s)
    ELSE IF j.tag = "num" THEN Ok(j.n)
    ELSE Raise("float() argument must be a string or a real number, not 'NoneType'")

TwoDigits(k) == IF k < 10 THEN "0" \o ToString(k) ELSE ToString(k)

\* f"{v:.2f}" for v >= 0: round to hundredths.  An exact decimal tie is
\* rounded to even here; Python decides it on the binary value, and no number
\* among the inputs below is a tie.
Format2f(v) ==
    LET q == v \div 100
        r == v % 100
        cents == IF r > 50 \/ (r = 50 /\ q % 2 = 1) THEN q + 1 ELSE q
    IN  ToString(cents \div 100) \o "." \o TwoDigits(cents % 100)

Description(price_usd, volume_h24) ==
    "Price: " \o Format2f(price_usd) \o " USD, Volume: " \o Format2f(volume_h24)

(***************************************************************************)
(* analyze_token_data                                                      *)
(***************************************************************************)
\* line 23
PriceUsd(token) ==
    IF token.priceUsd.tag # "absent" THEN Float(token.priceUsd) ELSE Ok(0)

\* line 24: "volume" in token and "h24" in token["volume"]
VolumeH24(token) ==
    IF token.volume.tag = "absent" THEN Ok(0)
    ELSE IF token.volume.tag = "null"
        THEN Raise("argument of type 'NoneType' is not iterable")
    ELSE IF token.volume.tag = "num"
        THEN Raise("argument of type 'int' is not iterable")
    ELSE IF token.volume.h24.tag = "absent" THEN Ok(0)
    ELSE Float(token.volume.h24)

Record(nm, ad, desc) == [name |-> nm, ca |-> ad, description |-> desc]

\* lines 23-29: one iteration of the loop: the record appended, or the error raised
AnalyzePair(token) ==
    LET p == PriceUsd(token)
        v == VolumeH24(token)
        none == Record("", "", "")
    IN  IF ~p.ok THEN [ok |-> FALSE, rec |-> none, err |-> p.err]
        ELSE IF ~v.ok THEN [ok |-> FALSE, rec |-> none, err |-> v.err]
        ELSE IF ~token.baseToken.present
            THEN [ok |-> FALSE, rec |-> none, err |-> "'baseToken'"]
        ELSE IF ~token.baseToken.hasName
            THEN [ok |-> FALSE, rec |-> none, err |-> "'name'"]
        ELSE IF ~token.baseToken.hasAddress
            THEN [ok |-> FALSE, rec |-> none, err |-> "'address'"]
        ELSE [ok |-> TRUE,
              rec |-> Record(token.baseToken.name, token.baseToken.address,
                             Description(p.val, v.val)),
              err |-> ""]

\* fault variant of TopPairs: the slice of line 22 is dropped
TopPairsUnbounded(pairs) == pairs

\* line 22: token_data["pairs"][:5]
TopPairs(pairs) == SubSeq(pairs, 1, Min(TopN, Len(pairs)))

\* fault variant of AnalyzeLoop: an entry that raises is skipped, not fatal
RECURSIVE AnalyzeLoopSkips(_, _)
AnalyzeLoopSkips(rest, acc) ==
    IF rest = <<>> THEN [ok |-> TRUE, val |-> acc, err |-> ""]
    ELSE LET r == AnalyzePair(Head(rest))
         IN  IF r.ok THEN AnalyzeLoopSkips(Tail(rest), Append(acc, r.rec))
             ELSE AnalyzeLoopSkips(Tail(rest), acc)

RECURSIVE AnalyzeLoop(_, _)
AnalyzeLoop(rest, acc) ==
    IF rest = <<>> THEN [ok |-> TRUE, val |-> acc, err |-> ""]
    ELSE LET r == AnalyzePair(Head(rest))
         IN  IF r.ok THEN AnalyzeLoop(Tail(rest), Append(acc, r.rec))
             ELSE [ok |-> FALSE, val |-> <<>>, err |-> r.err]

\* fault variant of analyze_token_data: an empty "pairs" list is an error
analyze_rejects_empty(td) ==
    IF ~td.hasPairs THEN [ok |-> FALSE, val |-> <<>>, err |-> "'pairs'"]
    ELSE IF td.pairs = <<>> THEN [ok |-> FALSE, val |-> <<>>, err |-> "no pairs"]
    ELSE AnalyzeLoop(TopPairs(td.pairs), <<>>)

\* lines 20-30; token_data is [hasPairs, pairs]
analyze_token_data(td) ==
    IF ~td.hasPairs THEN [ok |-> FALSE, val |-> <<>>, err |-> "'pairs'"]
    ELSE AnalyzeLoop(TopPairs(td.pairs), <<>>)

(***************************************************************************)
(* str(analyzed_data) (line 76) and the message text (line 42)             *)
(***************************************************************************)
ReprRecord(r) ==
    "{'name': '" \o r.name \o "', 'ca': '" \o r.ca
        \o "', 'description': '" \o r.description \o "'}"

RECURSIVE ReprItems(_)
ReprItems(recs) ==
    IF recs = <<>> THEN ""
    ELSE IF Len(recs) = 1 THEN ReprRecord(recs[1])
    ELSE ReprRecord(Head(recs)) \o ", " \o ReprItems(Tail(recs))

Repr(recs) == "[" \o ReprItems(recs) \o "]"

MessageText(token_name, ca, description) ==
    "Token: " \o token_name \o "\nCA: " \o ca \o "\nDescription: " \o description

(***************************************************************************)
(* Inputs: the environment, the responses the endpoint may return, and the *)
(* errors the two network calls may raise.                                 *)
(***************************************************************************)
\* os.getenv(...): <<>> is None, <<v>> is the string v
Unset == <<>>
TokenValues == {Unset, <<"">>, <<"123:ABC">>}
ChatValues == {Unset, <<"">>, <<"-1001">>}

\* "not bot_token": None and "" are both falsy
Falsy(v) == IF v = Unset THEN TRUE ELSE v[1] = ""

\* fault variant of Configured: line 37 tests the token alone
ConfiguredTokenOnly == ~Falsy(env.TELEGRAM_BOT_TOKEN)

\* line 37 does not raise
Configured == ~Falsy(env.TELEGRAM_BOT_TOKEN) /\ ~Falsy(env.TELEGRAM_CHAT_ID)

PairA ==
    Pair(BaseToken("FooCoin", "0xABC"),
         JStr(<<"1", "2", "3", "4", ".", "5">>), VObj(JNum(987654321)))
PairB == Pair(BaseToken("Bar", "0xDEF"), JAbsent, VAbsent)
PairC == Pair(BaseToken("Baz", "0x123"), JStr(<<"2">>), VObj(JAbsent))

\* the endpoint's listing; a response carries a slice of it
Listing == <<PairA, PairB, PairC, PairA, PairA, PairB, PairC, PairB>>

\* ways one entry of a response departs from a complete pair
Vary(p, d) ==
    CASE d = "noBaseToken" -> [p EXCEPT !.baseToken = NoBaseToken]
      [] d = "noName" -> [p EXCEPT !.baseToken.hasName = FALSE, !.baseToken.name = ""]
      [] d = "noAddress" ->
            [p EXCEPT !.baseToken.hasAddress = FALSE, !.baseToken.address = ""]
      [] d = "badPrice" -> [p EXCEPT !.priceUsd = JStr(<<"a", "b", "c">>)]
      [] d = "emptyPrice" -> [p EXCEPT !.priceUsd = JStr(<<>>)]
      [] d = "nullPrice" -> [p EXCEPT !.priceUsd = JNull]
      [] d = "numPrice" -> [p EXCEPT !.priceUsd = JNum(25000)]
      [] d = "nullVolume" -> [p EXCEPT !.volume = VNull]
      [] d = "numVolume" -> [p EXCEPT !.volume = VNum]
      [] d = "emptyVolume" -> [p EXCEPT !.volume = VObj(JAbsent)]
      [] d = "nullH24" -> [p EXCEPT !.volume = VObj(JNull)]
      [] d = "strH24" -> [p EXCEPT !.volume = VObj(JStr(<<"7", ".", "1", "2", "9">>))]
      [] d = "badH24" -> [p EXCEPT !.volume = VObj(JStr(<<"n", "/", "a">>))]

RunVariants == {"noBaseToken", "noName", "noAddress", "badPrice"}
AllVariants ==
    RunVariants \cup {"emptyPrice", "nullPrice", "numPrice", "nullVolume", "numVolume",
                      "emptyVolume", "nullH24", "strH24", "badH24"}

GoodLists ==
    {SubSeq(Listing, o, o + n - 1) : <<o, n>> \in
        {t \in (1..Len(Listing)) \X (0..MaxPairs) : t[1] + t[2] - 1 <= Len(Listing)}}

\* lists of complete pairs, and those lists with one entry varied
PairLists(variants) ==
    GoodLists \cup
    {[l EXCEPT ![i] = Vary(l[i], d)] : <<l, i, d>> \in
        {t \in GoodLists \X (1..MaxPairs) \X variants : t[2] <= Len(t[1])}}

Response(pairs) == [hasPairs |-> TRUE, pairs |-> pairs]
NoPairsResponse == [hasPairs |-> FALSE, pairs |-> <<>>]

Responses(variants) == {NoPairsResponse} \cup {Response(l) : l \in PairLists(variants)}

\* what response.json() may return in a run
RunResponses == Responses(RunVariants)

\* str(e) of the requests exception caught at line 15
FetchErrors == {"Read timed out. (read timeout=10)", "404 Client Error: Not Found"}
\* str(e) of what Bot(...) and bot.send_message(...) may raise
BotErrors == {"Invalid token"}
SendErrors == {"Timed out"}

(***************************************************************************)
(* The click handler, DexscreenerApp.fetch_and_analyze                     *)
(***************************************************************************)
Init ==
    /\ env \in [TELEGRAM_BOT_TOKEN : TokenValues, TELEGRAM_CHAT_ID : ChatValues]
    /\ status_label = "Ready"
    /\ text_box = ""
    /\ pc = "idle"
    /\ token_data = <<>>
    /\ analyzed_data = <<>>
    /\ idx = 0
    /\ calls = <<>>
    /\ fetch_result = <<>>
    /\ send_args = <<>>
    /\ send_results = <<>>
    /\ delivered = <<>>
    /\ raised = <<>>
    /\ prior = "Ready"

\* fault variant of Except: line 83 appends to the output area
ExceptAppends(msg) ==
    /\ status_label' = "Error occurred"
    /\ text_box' = text_box \o "Error: " \o msg
    /\ raised' = <<msg>>
    /\ pc' = "idle"
    /\ token_data' = <<>>
    /\ analyzed_data' = <<>>
    /\ idx' = 0

\* lines 81-83, then the handler returns and its locals are gone
Except(msg) ==
    /\ status_label' = "Error occurred"
    /\ text_box' = "Error: " \o msg
    /\ raised' = <<msg>>
    /\ pc' = "idle"
    /\ token_data' = <<>>
    /\ analyzed_data' = <<>>
    /\ idx' = 0

\* the button is clicked: line 72, up to the call of line 73
Click ==
    /\ pc = "idle"
    /\ status_label' = "Fetching token data..."
    /\ pc' = "fetch"
    /\ calls' = <<>>
    /\ fetch_result' = <<>>
    /\ send_args' = <<>>
    /\ send_results' = <<>>
    /\ delivered' = <<>>
    /\ raised' = <<>>
    /\ prior' = status_label
    /\ UNCHANGED <<env, text_box, token_data, analyzed_data, idx>>

\* lines 12-14 succeed; line 74
FetchReturns ==
    /\ pc = "fetch"
    /\ \E r \in RunResponses :
        /\ token_data' = <<r>>
        /\ fetch_result' = <<[ok |-> TRUE, data |-> r, err |-> ""]>>
    /\ calls' = Append(calls, "fetch_token_data")
    /\ status_label' = "Analyzing token data..."
    /\ pc' = "analyze"
    /\ UNCHANGED <<env, text_box, analyzed_data, idx, send_args, send_results, delivered,
                   raised, prior>>

\* fault variant of FetchFails: the failure is swallowed and an empty response
\* is handed on to line 74
FetchFailsContinues ==
    /\ pc = "fetch"
    /\ \E e \in FetchErrors :
        fetch_result' = <<[ok |-> FALSE, data |-> NoPairsResponse,
                           err |-> "Failed to fetch token data: " \o e]>>
    /\ token_data' = <<Response(<<>>)>>
    /\ calls' = Append(calls, "fetch_token_data")
    /\ status_label' = "Analyzing token data..."
    /\ pc' = "analyze"
    /\ UNCHANGED <<env, text_box, analyzed_data, idx, send_args, send_results, delivered,
                   raised, prior>>

\* lines 15-16: the request fails, fetch_token_data raises
FetchFails ==
    /\ pc = "fetch"
    /\ \E e \in FetchErrors :
        LET msg == "Failed to fetch token data: " \o e
        IN  /\ fetch_result' = <<[ok |-> FALSE, data |-> NoPairsResponse, err |-> msg]>>
            /\ Except(msg)
    /\ calls' = Append(calls, "fetch_token_data")
    /\ UNCHANGED <<env, send_args, send_results, delivered, prior>>

\* fault variant of AnalyzeReturns: line 76 is missing
AnalyzeReturnsNoDisplay ==
    /\ pc = "analyze"
    /\ LET res == analyze_token_data(token_data[1])
       IN  /\ res.ok
           /\ analyzed_data' = <<res.val>>
    /\ calls' = Append(calls, "analyze_token_data")
    /\ status_label' = "Sending Telegram messages..."
    /\ pc' = "send"
    /\ idx' = 1
    /\ UNCHANGED <<env, text_box, token_data, fetch_result, send_args, send_results,
                   delivered, raised, prior>>

\* fault variant of AnalyzeReturns: line 76 appends to the output area
AnalyzeReturnsAppends ==
    /\ pc = "analyze"
    /\ LET res == analyze_token_data(token_data[1])
       IN  /\ res.ok
           /\ analyzed_data' = <<res.val>>
           /\ text_box' = text_box \o Repr(res.val)
    /\ calls' = Append(calls, "analyze_token_data")
    /\ status_label' = "Sending Telegram messages..."
    /\ pc' = "send"
    /\ idx' = 1
    /\ UNCHANGED <<env, token_data, fetch_result, send_args, send_results, delivered,
                   raised, prior>>

\* line 75 returns; lines 76-77
AnalyzeReturns ==
    /\ pc = "analyze"
    /\ LET res == analyze_token_data(token_data[1])
       IN  /\ res.ok
           /\ analyzed_data' = <<res.val>>
           /\ text_box' = Repr(res.val)
    /\ calls' = Append(calls, "analyze_token_data")
    /\ status_label' = "Sending Telegram messages..."
    /\ pc' = "send"
    /\ idx' = 1
    /\ UNCHANGED <<env, token_data, fetch_result, send_args, send_results, delivered,
                   raised, prior>>

\* line 75 raises
AnalyzeRaises ==
    /\ pc = "analyze"
    /\ LET res == analyze_token_data(token_data[1])
       IN  /\ ~res.ok
           /\ Except(res.err)
    /\ calls' = Append(calls, "analyze_token_data")
    /\ UNCHANGED <<env, fetch_result, send_args, send_results, delivered, prior>>

InLoop == pc = "send" /\ idx <= Len(analyzed_data[1])

CurrentToken == analyzed_data[1][idx]

SendArgs(token) == <<token.name, token.ca, token.description>>

\* lines 35-38: a variable is missing or empty
SendConfigError ==
    /\ InLoop
    /\ ~Configured
    /\ LET msg == "Telegram bot token or chat ID not found in environment variables"
       IN  /\ send_results' = Append(send_results, msg)
           /\ Except(msg)
    /\ calls' = calls \o <<"send_telegram_message", "os.getenv", "os.getenv">>
    /\ send_args' = Append(send_args, SendArgs(CurrentToken))
    /\ UNCHANGED <<env, fetch_result, delivered, prior>>

\* line 41 raises; lines 44-45
SendBotFails ==
    /\ InLoop
    /\ Configured
    /\ \E e \in BotErrors :
        LET msg == "Failed to send Telegram message: " \o e
        IN  /\ send_results' = Append(send_results, msg)
            /\ Except(msg)
    /\ calls' = calls \o <<"send_telegram_message", "os.getenv", "os.getenv", "Bot">>
    /\ send_args' = Append(send_args, SendArgs(CurrentToken))
    /\ UNCHANGED <<env, fetch_result, delivered, prior>>

\* fault variant of SendMessageFails: the failed send is noted and the loop
\* moves on to the next record
SendMessageFailsIgnored ==
    /\ InLoop
    /\ Configured
    /\ \E e \in SendErrors :
        send_results' = Append(send_results, "Failed to send Telegram message: " \o e)
    /\ calls' = calls \o <<"send_telegram_message", "os.getenv", "os.getenv", "Bot",
                           "bot.send_message">>
    /\ send_args' = Append(send_args, SendArgs(CurrentToken))
    /\ idx' = idx + 1
    /\ UNCHANGED <<env, status_label, text_box, pc, token_data, analyzed_data,
                   fetch_result, delivered, raised, prior>>

\* line 43 raises; lines 44-45
SendMessageFails ==
    /\ InLoop
    /\ Configured
    /\ \E e \in SendErrors :
        LET msg == "Failed to send Telegram message: " \o e
        IN  /\ send_results' = Append(send_results, msg)
            /\ Except(msg)
    /\ calls' = calls \o <<"send_telegram_message", "os.getenv", "os.getenv", "Bot",
                           "bot.send_message">>
    /\ send_args' = Append(send_args, SendArgs(CurrentToken))
    /\ UNCHANGED <<env, fetch_result, delivered, prior>>

\* lines 35-43 succeed (bot.send_message as a blocking call that has sent the
\* text when it returns); the loop of line 78 moves on
SendDelivered ==
    /\ InLoop
    /\ Configured
    /\ delivered' = Append(delivered,
            [chat_id |-> env.TELEGRAM_CHAT_ID[1],
             text |-> MessageText(CurrentToken.name, CurrentToken.ca,
                                  CurrentToken.description)])
    /\ send_results' = Append(send_results, "ok")
    /\ calls' = calls \o <<"send_telegram_message", "os.getenv", "os.getenv", "Bot",
                           "bot.send_message">>
    /\ send_args' = Append(send_args, SendArgs(CurrentToken))
    /\ idx' = idx + 1
    /\ UNCHANGED <<env, status_label, text_box, pc, token_data, analyzed_data,
                   fetch_result, raised, prior>>

\* the loop of line 78 is exhausted; line 80, and the handler returns
Finish ==
    /\ pc = "send"
    /\ idx > Len(analyzed_data[1])
    /\ status_label' = "Done"
    /\ pc' = "idle"
    /\ token_data' = <<>>
    /\ analyzed_data' = <<>>
    /\ idx' = 0
    /\ UNCHANGED <<env, text_box, calls, fetch_result, send_args, send_results,
                   delivered, raised, prior>>

Next ==
    \/ Click
    \/ FetchReturns
    \/ FetchFails
    \/ AnalyzeReturns
    \/ AnalyzeRaises
    \/ SendConfigError
    \/ SendBotFails
    \/ SendMessageFails
    \/ SendDelivered
    \/ Finish

Spec == Init /\ [][Next]_vars

(***************************************************************************)
(* analyze_token_data on its own: the handler stands at line 75 with any   *)
(* response of the wider input set in token_data.                          *)
(***************************************************************************)
AnalyzeResponses == Responses(AllVariants)

InitAnalyze ==
    /\ env \in [TELEGRAM_BOT_TOKEN : TokenValues, TELEGRAM_CHAT_ID : ChatValues]
    /\ status_label = "Analyzing token data..."
    /\ text_box = ""
    /\ pc = "analyze"
    /\ \E r \in AnalyzeResponses :
        /\ token_data = <<r>>
        /\ fetch_result = <<[ok |-> TRUE, data |-> r, err |-> ""]>>
    /\ analyzed_data = <<>>
    /\ idx = 0
    /\ calls = <<"fetch_token_data">>
    /\ send_args = <<>>
    /\ send_results = <<>>
    /\ delivered = <<>>
    /\ raised = <<>>
    /\ prior = "Ready"

NextAnalyze ==
    \/ AnalyzeReturns
    \/ AnalyzeRaises

SpecAnalyze == InitAnalyze /\ [][NextAnalyze]_vars

(***************************************************************************)
(* Vocabulary of the properties                                            *)
(***************************************************************************)
Invoked(f) == \E i \in 1..Len(calls) : calls[i] = f

Count(f) == Cardinality({i \in 1..Len(calls) : calls[i] = f})

\* the fetch of this run returned a response
Fetched == fetch_result # <<>> /\ fetch_result[1].ok

\* the fetch of this run raised
FetchFailed == fetch_result # <<>> /\ ~fetch_result[1].ok

FetchedPairs == fetch_result[1].data.pairs

\* the call of line 75 raised: it is the run's last call and the run ended in
\* the handler of line 81
AnalysisRaised ==
    /\ pc = "idle"
    /\ raised # <<>>
    /\ calls # <<>>
    /\ calls[Len(calls)] = "analyze_token_data"

\* what line 75 made of this run's response
Analysis == analyze_token_data(fetch_result[1].data)

\* the record a pair projects to
Projection(p) ==
    Record(p.baseToken.name, p.baseToken.address,
           Description(PriceUsd(p).val, VolumeH24(p).val))

HasIdentity(p) ==
    p.baseToken.present /\ p.baseToken.hasName /\ p.baseToken.hasAddress

NumericOk(p) == PriceUsd(p).ok /\ VolumeH24(p).ok

\* the positions line 22 keeps
Top(pairs) == 1..Min(5, Len(pairs))

ConfigMessage == "Telegram bot token or chat ID not found in environment variables"

Texts(msgs) == [i \in 1..Len(msgs) |-> msgs[i].text]

RecordTexts(recs, k) ==
    [i \in 1..k |-> MessageText(recs[i].name, recs[i].ca, recs[i].description)]

(***************************************************************************)
(* C1: for a response whose pairs list has length n (0, fewer than 5, 5 or *)
(* more), what analyze_token_data returns is exactly min(5, n) records,    *)
(* record i being the projection of pairs[i]: original order, nothing      *)
(* skipped or duplicated; and it does return when each of the first        *)
(* min(5, n) pairs is complete and its numbers parse.                      *)
(***************************************************************************)
C1_PrefixInOrder ==
    /\ pc = "send" =>
        LET out == analyzed_data[1]
        IN  /\ Len(out) = Min(5, Len(FetchedPairs))
            /\ \A i \in 1..Len(out) : out[i] = Projection(FetchedPairs[i])
    /\ (/\ Fetched
        /\ fetch_result[1].data.hasPairs
        /\ Invoked("analyze_token_data")
        /\ \A i \in Top(FetchedPairs) :
                HasIdentity(FetchedPairs[i]) /\ NumericOk(FetchedPairs[i]))
       => pc = "send"

\* a response with more than five pairs has been analysed into five records
C1_Witness ==
    /\ pc = "send"
    /\ Len(FetchedPairs) > 5
    /\ Len(analyzed_data[1]) = 5
    /\ analyzed_data[1][5] = Projection(FetchedPairs[5])
    /\ analyzed_data[1][1] # analyzed_data[1][2]

(***************************************************************************)
(* C2: analyze_token_data never fails because of a numeric field: when     *)
(* every one of the first five pairs names its base token, the call        *)
(* returns, and a priceUsd or volume.h24 that float() rejects counts as 0. *)
(***************************************************************************)
NumberOrZero(r) == IF r.ok THEN r.val ELSE 0

C2_NumericNeverRaises ==
    (/\ Fetched
     /\ fetch_result[1].data.hasPairs
     /\ Invoked("analyze_token_data")
     /\ \A i \in Top(FetchedPairs) : HasIdentity(FetchedPairs[i]))
    => /\ ~AnalysisRaised
       /\ pc = "send" =>
            \A i \in 1..Len(analyzed_data[1]) :
                analyzed_data[1][i].description =
                    Description(NumberOrZero(PriceUsd(FetchedPairs[i])),
                                NumberOrZero(VolumeH24(FetchedPairs[i])))

(***************************************************************************)
(* C3: in a run whose fetch fails, analyze_token_data and                  *)
(* send_telegram_message are never invoked; the run goes straight from the *)
(* fetch to the error state.                                               *)
(***************************************************************************)
C3_FetchFailureShortCircuits ==
    FetchFailed =>
        /\ calls = <<"fetch_token_data">>
        /\ send_args = <<>>
        /\ delivered = <<>>
        /\ pc = "idle"
        /\ status_label = "Error occurred"

\* a fetch has failed in a run that followed a successful one
C3_Witness ==
    /\ FetchFailed
    /\ raised = <<fetch_result[1].err>>
    /\ prior = "Done"

(***************************************************************************)
(* C4: the send_telegram_message calls of a run are a prefix of the        *)
(* analysed records, in order, one call per record; a failed send is the   *)
(* last call of its run (no later record is sent, nothing is retried).     *)
(***************************************************************************)
C4_SendsArePrefix ==
    /\ send_args # <<>> => Fetched /\ Analysis.ok
    /\ Len(send_results) = Len(send_args)
    /\ send_args # <<>> =>
        /\ Len(send_args) <= Len(Analysis.val)
        /\ \A k \in 1..Len(send_args) : send_args[k] = SendArgs(Analysis.val[k])
        /\ \A k \in 1..Len(send_results) :
            send_results[k] # "ok" => k = Len(send_results) /\ pc = "idle"

\* the send for record 2 of 5 failed: two calls were made, one message went out
C4_Witness ==
    /\ Fetched
    /\ Analysis.ok
    /\ Len(Analysis.val) = 5
    /\ Len(send_results) = 2
    /\ send_results[1] = "ok"
    /\ send_results[2] # "ok"
    /\ Len(delivered) = 1
    /\ pc = "idle"

(***************************************************************************)
(* C5: when a stage of a run raises, the run ends with the status          *)
(* "Error occurred" and the output area holding exactly "Error: " and the  *)
(* error's message, whatever it held; the handler is back at rest, so the  *)
(* button can be clicked again.                                            *)
(***************************************************************************)
C5_ErrorShown ==
    /\ raised # <<>> =>
        /\ status_label = "Error occurred"
        /\ text_box = "Error: " \o raised[1]
        /\ pc = "idle"
        /\ ENABLED Click
    /\ FetchFailed => raised = <<fetch_result[1].err>>
    /\ AnalysisRaised => raised = <<Analysis.err>>
    /\ (send_results # <<>> /\ send_results[Len(send_results)] # "ok")
        => raised = <<send_results[Len(send_results)]>>

\* a notification failed after the record list had been written and a message sent
C5_Witness ==
    /\ raised # <<>>
    /\ Len(send_results) >= 2
    /\ delivered # <<>>
    /\ text_box = "Error: " \o send_results[Len(send_results)]

(***************************************************************************)
(* C6: with TELEGRAM_BOT_TOKEN or TELEGRAM_CHAT_ID absent,                 *)
(* send_telegram_message raises the configuration error before a Bot is    *)
(* created or a send attempted, so the run delivers no message.            *)
(***************************************************************************)
C6_NoCredentialsNoSend ==
    (env.TELEGRAM_BOT_TOKEN = Unset \/ env.TELEGRAM_CHAT_ID = Unset) =>
        /\ ~Invoked("Bot")
        /\ ~Invoked("bot.send_message")
        /\ delivered = <<>>
        /\ send_args # <<>> =>
            /\ send_results = <<ConfigMessage>>
            /\ raised = <<ConfigMessage>>
            /\ Len(send_args) = 1

\* the chat id alone is absent and a run with several records reached the notifier
C6_Witness ==
    /\ env.TELEGRAM_CHAT_ID = Unset
    /\ env.TELEGRAM_BOT_TOKEN # Unset
    /\ ~Falsy(env.TELEGRAM_BOT_TOKEN)
    /\ Fetched
    /\ Analysis.ok
    /\ Len(Analysis.val) >= 2
    /\ send_results = <<ConfigMessage>>

(***************************************************************************)
(* C7: for a fetched response with an empty pairs list the analysis is the *)
(* empty list, no send_telegram_message call is made, no credential is     *)
(* read, and the run finishes with the status "Done".                      *)
(***************************************************************************)
C7_EmptyPairsNoSend ==
    (/\ Fetched
     /\ fetch_result[1].data.hasPairs
     /\ FetchedPairs = <<>>)
    => /\ ~Invoked("send_telegram_message")
       /\ ~Invoked("os.getenv")
       /\ send_args = <<>>
       /\ delivered = <<>>
       /\ raised = <<>>
       /\ pc = "send" => analyzed_data = << <<>> >>
       /\ pc = "idle" => status_label = "Done" /\ text_box = "[]"

\* a run on an empty pairs list has finished, without credentials in the environment
C7_Witness ==
    /\ Fetched
    /\ fetch_result[1].data.hasPairs
    /\ FetchedPairs = <<>>
    /\ pc = "idle"
    /\ status_label = "Done"
    /\ ~Configured

(***************************************************************************)
(* C8: a click makes exactly one fetch attempt, the stages run in the      *)
(* order fetch, analyse, send, done; records are sent only after the       *)
(* analysis is complete and its list is in the output area; the status is  *)
(* "Done" only when the fetch, the analysis and every send succeeded.      *)
(***************************************************************************)
C8_StagesInOrder ==
    /\ Count("fetch_token_data") = (IF fetch_result = <<>> THEN 0 ELSE 1)
    /\ (pc = "idle" /\ status_label # "Ready") => Count("fetch_token_data") = 1
    /\ \A i \in 1..Len(calls) :
        /\ calls[i] = "fetch_token_data" => i = 1
        /\ calls[i] = "analyze_token_data" => i = 2 /\ Fetched
        /\ calls[i] = "send_telegram_message" =>
            i > 2 /\ calls[2] = "analyze_token_data" /\ Analysis.ok
    /\ pc = "fetch" => status_label = "Fetching token data..." /\ calls = <<>>
    /\ pc = "analyze" =>
        /\ status_label = "Analyzing token data..."
        /\ calls = <<"fetch_token_data">>
        /\ Fetched
    /\ pc = "send" =>
        /\ status_label = "Sending Telegram messages..."
        /\ SubSeq(calls, 1, 2) = <<"fetch_token_data", "analyze_token_data">>
        /\ analyzed_data = <<Analysis.val>>
        /\ text_box = Repr(Analysis.val)
        /\ Len(send_args) = idx - 1
    /\ status_label = "Done" =>
        /\ pc = "idle"
        /\ Fetched
        /\ Analysis.ok
        /\ raised = <<>>
        /\ Len(send_results) = Len(Analysis.val)
        /\ \A k \in 1..Len(send_results) : send_results[k] = "ok"
        /\ Texts(delivered) = RecordTexts(Analysis.val, Len(Analysis.val))

\* a run of five records went through every stage
C8_Witness ==
    /\ status_label = "Done"
    /\ Len(delivered) = 5
    /\ Count("send_telegram_message") = 5

(***************************************************************************)
(* C9: what a finished run leaves (status, output area, the sends made and *)
(* the messages delivered) is a function of that run's fetch outcome, the  *)
(* environment and its send outcomes alone; nothing of earlier runs enters.*)
(***************************************************************************)
RunOutcome ==
    LET f == fetch_result[1]
        a == analyze_token_data(f.data)
        k == Len(send_results)
        failed == k > 0 /\ send_results[k] # "ok"
    IN  IF ~f.ok
            THEN [status |-> "Error occurred", text |-> "Error: " \o f.err,
                  calls |-> 0, sent |-> <<>>]
        ELSE IF ~a.ok
            THEN [status |-> "Error occurred", text |-> "Error: " \o a.err,
                  calls |-> 0, sent |-> <<>>]
        ELSE IF a.val # <<>> /\ ~Configured
            THEN [status |-> "Error occurred", text |-> "Error: " \o ConfigMessage,
                  calls |-> 1, sent |-> <<>>]
        ELSE IF failed
            THEN [status |-> "Error occurred", text |-> "Error: " \o send_results[k],
                  calls |-> k, sent |-> RecordTexts(a.val, k - 1)]
        ELSE [status |-> "Done", text |-> Repr(a.val),
              calls |-> Len(a.val), sent |-> RecordTexts(a.val, Len(a.val))]

C9_RunsIndependent ==
    (pc = "idle" /\ fetch_result # <<>>) =>
        /\ status_label = RunOutcome.status
        /\ text_box = RunOutcome.text
        /\ Len(send_args) = RunOutcome.calls
        /\ \A k \in 1..Len(send_args) : send_args[k] = SendArgs(Analysis.val[k])
        /\ Texts(delivered) = RunOutcome.sent

\* a run that delivered its records followed a run that ended in the error state
C9_Witness ==
    /\ pc = "idle"
    /\ status_label = "Done"
    /\ Len(delivered) >= 2
    /\ prior = "Error occurred"

(***************************************************************************)
(* C10: if one of the first five pairs lacks baseToken, baseToken.name or  *)
(* baseToken.address, the run sends nothing, not even for the complete     *)
(* pairs before it, and ends in the error state; such a pair at position   *)
(* six or later does not make the analysis fail.                           *)
(***************************************************************************)
C10_AllOrNothing ==
    (/\ Fetched
     /\ fetch_result[1].data.hasPairs
     /\ Invoked("analyze_token_data"))
    => /\ (\E i \in Top(FetchedPairs) : ~HasIdentity(FetchedPairs[i])) =>
            /\ AnalysisRaised
            /\ send_args = <<>>
            /\ delivered = <<>>
            /\ status_label = "Error occurred"
       /\ (\A i \in Top(FetchedPairs) :
                HasIdentity(FetchedPairs[i]) /\ NumericOk(FetchedPairs[i]))
            => ~AnalysisRaised

\* the third pair lacks its base token's address, the two before it are complete
C10_Witness ==
    /\ Fetched
    /\ Len(FetchedPairs) >= 3
    /\ HasIdentity(FetchedPairs[1]) /\ NumericOk(FetchedPairs[1])
    /\ HasIdentity(FetchedPairs[2]) /\ NumericOk(FetchedPairs[2])
    /\ FetchedPairs[3].baseToken.present
    /\ ~FetchedPairs[3].baseToken.hasAddress
    /\ AnalysisRaised
    /\ send_args = <<>>
    /\ status_label = "Error occurred"

\* a run whose sixth pair lacks baseToken delivered its five records
C10_SixthPairIgnored ==
    ~(/\ Fetched
      /\ Len(FetchedPairs) > 5
      /\ ~HasIdentity(FetchedPairs[6])
      /\ status_label = "Done"
      /\ Len(delivered) = 5)

====
